---- MODULE Spec2Model ----
(***************************************************************************)
(* KC705 DRTIO satellite: bring-up of the Si5324 clock synthesizer.        *)
(*                                                                         *)
(* Source: artiq/gateware/targets/kc705_drtio_satellite.py                 *)
(*   get_i2c_program   - the I2C program compiled from sys_clk_freq        *)
(*   Si5324ResetClock  - the two chained down-counters gating the program  *)
(*   Satellite         - wires si5324_not_ready to the Sequencer's reset   *)
(*                                                                         *)
(* One step of the model is one rising edge of the sys clock: every        *)
(* register takes the value its synchronous statement computes from the    *)
(* values the registers held before the edge.                              *)
(***************************************************************************)
EXTENDS Integers, Sequences, FiniteSets

(***************************************************************************)
(* Double-precision arithmetic of int(sys_clk_freq*1.1e-6) and             *)
(* int(sys_clk_freq*11e-3).  A double constant c is mant * 2^-exp with a   *)
(* 53-bit significand mant, kept as base-4096 limbs, least significant     *)
(* first.  The exact product f * mant is rounded to 53 significant bits    *)
(* (round half to even) and int() drops the fraction.                      *)
(***************************************************************************)
Limb == 4096

LimbBits == 12

SignificandBits == 53

RECURSIVE Pow2(_)
Pow2(n) == IF n = 0 THEN 1 ELSE 2 * Pow2(n - 1)

\* 1.1e-6 == 5194603131156610 * 2^-72  (0x1.27476ca61b882p-20)
Mant_1p1em6 == <<2178, 1563, 1738, 1863, 18>>

Exp_1p1em6 == 72

\* 11e-3 == 6341068275337658 * 2^-59  (0x1.6872b020c49bap-7)
Mant_11em3 == <<2490, 196, 2818, 2162, 22>>

Exp_11em3 == 59

\* limbs of a machine integer 0 <= n < 2^31
ToLimbs(n) == <<n % Limb, (n \div Limb) % Limb, n \div (Limb * Limb)>>

RECURSIVE ConvSum(_, _, _, _)
\* sum of a[i] * m[k + 1 - i] over the i >= from for which both limbs exist
ConvSum(a, m, k, from) ==
    IF from > Len(a) THEN 0
    ELSE (IF k + 1 - from \in 1..Len(m) THEN a[from] * m[k + 1 - from] ELSE 0)
         + ConvSum(a, m, k, from + 1)

RECURSIVE Carry(_, _, _, _, _)
\* limbs of the exact product a * m, carries propagated
Carry(a, m, k, carry, n) ==
    IF k > n THEN <<>>
    ELSE LET t == ConvSum(a, m, k, 1) + carry
         IN  <<t % Limb>> \o Carry(a, m, k + 1, t \div Limb, n)

MulLimbs(a, m) == Carry(a, m, 1, 0, Len(a) + Len(m))

BitAt(p, i) == (p[(i \div LimbBits) + 1] \div Pow2(i % LimbBits)) % 2

NumBits(p) == Len(p) * LimbBits

\* position of the most significant set bit plus one, 0 for zero
BitLen(p) ==
    LET S == {i \in 0..(NumBits(p) - 1) : BitAt(p, i) = 1}
    IN  IF S = {} THEN 0 ELSE (CHOOSE i \in S : \A j \in S : j <= i) + 1

RECURSIVE BitsValue(_, _, _)
\* the integer made of bits lo..hi-1 of p
BitsValue(p, lo, hi) ==
    IF lo >= hi THEN 0 ELSE BitAt(p, lo) + 2 * BitsValue(p, lo + 1, hi)

\* int(f * c) for the double c = mant * 2^-exp, 0 < c < 1, 0 <= f < 2^31
FloatMulInt(f, mant, exp) ==
    LET p       == MulLimbs(ToLimbs(f), mant)
        n       == BitLen(p)
        s       == n - SignificandBits  \* low bits the rounding drops
        floor   == BitsValue(p, exp, n)
        roundUp == /\ s >= 1
                   /\ BitAt(p, s - 1) = 1
                   /\ \/ BitAt(p, s) = 1
                      \/ \E i \in 0..(s - 2) : BitAt(p, i) = 1
        \* the increment of the significand reaches the integer part only
        \* through a run of ones in the fraction bits that were kept
        carryIn == roundUp /\ \A i \in s..(exp - 1) : BitAt(p, i) = 1
    IN  floor + (IF carryIn THEN 1 ELSE 0)

(***************************************************************************)
(* Si5324ResetClock                                                        *)
(***************************************************************************)
\* variant: the product rounded up instead of truncated
reset_val_of_roundup(f) == FloatMulInt(f, Mant_1p1em6, Exp_1p1em6) + 1

\* reset_val = int(sys_clk_freq*1.1e-6)
reset_val_of(f) == FloatMulInt(f, Mant_1p1em6, Exp_1p1em6)

\* ready_val = int(sys_clk_freq*11e-3)
ready_val_of(f) == FloatMulInt(f, Mant_11em3, Exp_11em3)


\* how many times a behaviour configures the device again
MaxPowerUps == 1

\* the sys clock frequencies the gateware is built for (Hz)
Freqs == {23000, 100100, 909091, 1000000}

(***************************************************************************)
(* get_i2c_program                                                         *)
(***************************************************************************)
RECURSIVE BitAnd(_, _)
BitAnd(a, b) ==
    IF a = 0 \/ b = 0 THEN 0
    ELSE (a % 2) * (b % 2) + 2 * BitAnd(a \div 2, b \div 2)

RECURSIVE BitOr(_, _)
BitOr(a, b) ==
    IF a = 0 THEN b
    ELSE IF b = 0 THEN a
    ELSE (IF a % 2 = 1 \/ b % 2 = 1 THEN 1 ELSE 0) + 2 * BitOr(a \div 2, b \div 2)

\* variant: the chip address is used unshifted
Shl_noshift(a, n) == a

Shl(a, n) == a * Pow2(n)

\* variant: the field is masked without being shifted down
Shr_noshift(a, n) == a

Shr(a, n) == a \div Pow2(n)

\* misoc.cores.i2c: register addresses of the I2C master
I2C_XFER_ADDR == 0

I2C_CONFIG_ADDR == 1

\* misoc.cores.i2c: command and status bits of the transfer register
I2C_WRITE == 1024

I2C_STOP == 2048

I2C_START == 4096

I2C_IDLE == 8192

\* misoc.cores.sequencer: the three instructions
InstWrite(address, data) == [op |-> "InstWrite", address |-> address, data |-> data]

InstWait(address, data) == [op |-> "InstWait", address |-> address, data |-> data]

InstEnd == [op |-> "InstEnd", address |-> 0, data |-> 0]

N1_HS == 6

NC1_LS == 7

N2_HS == 6

N2_LS == 20111

N31 == 2513

N32 == 4596

i2c_sequence ==
    << \* PCA9548: select channel 7
       <<Shl(116, 1), Shl(1, 7)>>,
       \* Si5324: configure
       <<Shl(104, 1), 0, 80>>,
       <<Shl(104, 1), 1, 228>>,
       <<Shl(104, 1), 2, BitOr(2, Shl(4, 4))>>,
       <<Shl(104, 1), 3, BitOr(5, 16)>>,
       <<Shl(104, 1), 4, 146>>,
       <<Shl(104, 1), 6, 7>>,
       <<Shl(104, 1), 25, BitAnd(Shl(N1_HS, 5), 255)>>,
       <<Shl(104, 1), 31, BitAnd(Shr(NC1_LS, 16), 255)>>,
       <<Shl(104, 1), 32, BitAnd(Shr(NC1_LS, 8), 255)>>,
       <<Shl(104, 1), 33, BitAnd(NC1_LS, 255)>>,
       <<Shl(104, 1), 40, BitOr(BitAnd(Shl(N2_HS, 5), 255),
                                BitAnd(Shr(N2_LS, 16), 255))>>,
       <<Shl(104, 1), 41, BitAnd(Shr(N2_LS, 8), 255)>>,
       <<Shl(104, 1), 42, BitAnd(N2_LS, 255)>>,
       <<Shl(104, 1), 43, BitAnd(Shr(N31, 16), 255)>>,
       <<Shl(104, 1), 44, BitAnd(Shr(N31, 8), 255)>>,
       <<Shl(104, 1), 45, BitAnd(N31, 255)>>,
       <<Shl(104, 1), 46, BitAnd(Shr(N32, 16), 255)>>,
       <<Shl(104, 1), 47, BitAnd(Shr(N32, 8), 255)>>,
       <<Shl(104, 1), 48, BitAnd(N32, 255)>>,
       <<Shl(104, 1), 137, 1>>,
       <<Shl(104, 1), 136, 64>> >>

RECURSIVE OctetProgram_nowait(_, _)
\* variant: the octets are written back to back, without waiting for idle
OctetProgram_nowait(subseq, i) ==
    IF i > Len(subseq) THEN <<>>
    ELSE <<InstWrite(I2C_XFER_ADDR, BitOr(I2C_WRITE, subseq[i]))>>
         \o OctetProgram_nowait(subseq, i + 1)

RECURSIVE OctetProgram_wait_busy(_, _)
\* variant: after an octet the program waits for a status of 0, not for idle
OctetProgram_wait_busy(subseq, i) ==
    IF i > Len(subseq) THEN <<>>
    ELSE <<InstWrite(I2C_XFER_ADDR, BitOr(I2C_WRITE, subseq[i])),
           InstWait(I2C_XFER_ADDR, 0)>>
         \o OctetProgram_wait_busy(subseq, i + 1)

RECURSIVE OctetProgram(_, _)
\* for octet in subseq: the write of the octet and the wait for idle
OctetProgram(subseq, i) ==
    IF i > Len(subseq) THEN <<>>
    ELSE <<InstWrite(I2C_XFER_ADDR, BitOr(I2C_WRITE, subseq[i])),
           InstWait(I2C_XFER_ADDR, I2C_IDLE)>>
         \o OctetProgram(subseq, i + 1)

\* variant: the stop is requested before the payload is written
SubseqProgram_stop_first(subseq) ==
    <<InstWrite(I2C_XFER_ADDR, I2C_START), InstWait(I2C_XFER_ADDR, I2C_IDLE)>>
    \o <<InstWrite(I2C_XFER_ADDR, I2C_STOP), InstWait(I2C_XFER_ADDR, I2C_IDLE)>>
    \o OctetProgram(subseq, 1)

SubseqProgram(subseq) ==
    <<InstWrite(I2C_XFER_ADDR, I2C_START), InstWait(I2C_XFER_ADDR, I2C_IDLE)>>
    \o OctetProgram(subseq, 1)
    \o <<InstWrite(I2C_XFER_ADDR, I2C_STOP), InstWait(I2C_XFER_ADDR, I2C_IDLE)>>

RECURSIVE SequenceProgram(_, _)
\* for subseq in i2c_sequence
SequenceProgram(seq, i) ==
    IF i > Len(seq) THEN <<>>
    ELSE SubseqProgram(seq[i]) \o SequenceProgram(seq, i + 1)

\* int(sys_clk_freq/1e3): the quotient by 1000.0 is correctly rounded and a
\* non-integral quotient lies at least 1/1000 from the next integer, so the
\* truncated double is the integer quotient
ConfigValue(f) == f \div 1000

\* what the loop over i2c_sequence appends to the program
SequenceInstructions == SequenceProgram(i2c_sequence, 1)

\* variant: the program is returned without its final InstEnd
get_i2c_program_noend(f) ==
    <<InstWrite(I2C_CONFIG_ADDR, ConfigValue(f))>>
    \o SequenceInstructions

\* variant: InstEnd is placed at the head of the program
get_i2c_program_end_first(f) ==
    <<InstEnd>>
    \o <<InstWrite(I2C_CONFIG_ADDR, ConfigValue(f))>>
    \o SequenceInstructions

get_i2c_program(f) ==
    <<InstWrite(I2C_CONFIG_ADDR, ConfigValue(f))>>
    \o SequenceInstructions
    \o <<InstEnd>>


(***************************************************************************)
(* State                                                                   *)
(***************************************************************************)
VARIABLES
    sys_clk_freq,      \* the frequency the gateware was built for
    reset_val,         \* build time: reset value of reset_ctr
    ready_val,         \* build time: reset value of ready_ctr
    reset_ctr,         \* Si5324ResetClock: reset pulse down-counter
    reset_done,        \* Si5324ResetClock: reset pulse finished
    si5324_rst_n,      \* pin: 0 holds the Si5324 in reset, 1 releases it
    ready_ctr,         \* Si5324ResetClock: settle down-counter
    si5324_not_ready,  \* Si5324ResetClock: 1 until the chip may be accessed
    seq_state,         \* Sequencer: "Idle", "Executing" or "Halted"
    pc,                \* Sequencer: index of the current instruction, from 0
    write_pending,     \* Sequencer: the current write is issued, not yet taken
    bus_req,           \* what the Sequencer put on the bus at the last edge
    bus_status,        \* I2C master: "Idle" or "Busy"
    collision,         \* a transfer was requested while the master was busy
    tick,              \* edges since power-up, until the Sequencer leaves Idle
    rst_ticks,         \* edges since power-up that began with si5324_rst_n = 0
    settle_ticks,      \* edges that began released but still not ready
    powerups,          \* how many times the device was configured again
    edge_parity,       \* edges since power-up, modulo 2
    issued             \* the writes put on the bus since power-up, in order

gate_vars == <<reset_ctr, reset_done, si5324_rst_n, ready_ctr, si5324_not_ready>>

seq_vars == <<seq_state, pc, write_pending, bus_req>>

bus_vars == <<bus_status, collision>>

clock_vars == <<tick, rst_ticks, settle_ticks, powerups, edge_parity>>

build_vars == <<sys_clk_freq, reset_val, ready_val>>

vars == <<build_vars, gate_vars, seq_vars, bus_vars, clock_vars, issued>>

Program == get_i2c_program(sys_clk_freq)

NoReq == [op |-> "none", address |-> 0, data |-> 0]

\* every register at its reset value
PowerUpValues(f) ==
    /\ sys_clk_freq = f
    /\ reset_val = reset_val_of(f)
    /\ ready_val = ready_val_of(f)
    /\ reset_ctr = reset_val
    /\ reset_done = 0
    /\ si5324_rst_n = 0
    /\ ready_ctr = ready_val
    /\ si5324_not_ready = 1
    /\ seq_state = "Idle"
    /\ pc = 0
    /\ write_pending = FALSE
    /\ bus_req = NoReq
    /\ bus_status = "Idle"
    /\ collision = FALSE
    /\ tick = 0
    /\ rst_ticks = 0
    /\ settle_ticks = 0
    /\ powerups = 0
    /\ edge_parity = 0
    /\ issued = <<>>

Init == \E f \in Freqs : PowerUpValues(f)

(***************************************************************************)
(* Si5324ResetClock: the two synchronous statements                        *)
(***************************************************************************)
\* variant: the chip is released on the edge that counts down to zero
ResetCounter_early ==
    IF reset_ctr > 1
    THEN /\ reset_ctr' = reset_ctr - 1
         /\ UNCHANGED <<si5324_rst_n, reset_done>>
    ELSE /\ si5324_rst_n' = 1
         /\ reset_done' = 1
         /\ reset_ctr' = 0

\* minimum reset pulse
ResetCounter ==
    IF reset_ctr # 0
    THEN /\ reset_ctr' = reset_ctr - 1
         /\ UNCHANGED <<si5324_rst_n, reset_done>>
    ELSE /\ si5324_rst_n' = 1
         /\ reset_done' = 1
         /\ UNCHANGED reset_ctr

\* variant: the settle counter is not held back by reset_done
ReadyCounter_ungated ==
    IF ready_ctr # 0
    THEN /\ ready_ctr' = ready_ctr - 1
         /\ UNCHANGED si5324_not_ready
    ELSE /\ si5324_not_ready' = 0
         /\ UNCHANGED ready_ctr

\* variant: not-ready is cleared on the edge that counts down to zero
ReadyCounter_early ==
    IF reset_done = 1
    THEN /\ ready_ctr' = IF ready_ctr # 0 THEN ready_ctr - 1 ELSE 0
         /\ si5324_not_ready' = IF ready_ctr <= 1 THEN 0 ELSE si5324_not_ready
    ELSE UNCHANGED <<ready_ctr, si5324_not_ready>>

\* variant: the settle counter is decremented without the test for zero and
\* wraps to the top of its range
ReadyCounter_wrap ==
    IF reset_done = 1
    THEN /\ ready_ctr' = IF ready_ctr # 0 THEN ready_ctr - 1 ELSE ready_val
         /\ si5324_not_ready' = IF ready_ctr = 0 THEN 0 ELSE si5324_not_ready
    ELSE UNCHANGED <<ready_ctr, si5324_not_ready>>

\* settle time after reset before the chip may be accessed
ReadyCounter ==
    IF reset_done = 1
    THEN IF ready_ctr # 0
         THEN /\ ready_ctr' = ready_ctr - 1
              /\ UNCHANGED si5324_not_ready
         ELSE /\ si5324_not_ready' = 0
              /\ UNCHANGED ready_ctr
    ELSE UNCHANGED <<ready_ctr, si5324_not_ready>>

GateTick == ResetCounter /\ ReadyCounter

(***************************************************************************)
(* Satellite: sequencer.reset.eq(si5324_reset_clock.si5324_not_ready)      *)
(***************************************************************************)
\* variant: the Sequencer is released together with the chip's reset pin
sequencer_reset_on_rst_n == si5324_rst_n = 0

\* variant: the reset input is driven with the opposite polarity
sequencer_reset_inverted == si5324_not_ready = 0

sequencer_reset == si5324_not_ready = 1

(***************************************************************************)
(* Sequencer and I2C master (misoc), as the specification describes them   *)
(***************************************************************************)
\* the value a read of a register of the I2C master returns
BusRead(address) ==
    IF address = I2C_XFER_ADDR /\ bus_status = "Idle" THEN I2C_IDLE ELSE 0

Advance ==
    /\ pc' = pc + 1
    /\ seq_state' = "Executing"
    /\ write_pending' = FALSE
    /\ bus_req' = NoReq

Stay ==
    /\ UNCHANGED <<pc, write_pending>>
    /\ seq_state' = "Executing"
    /\ bus_req' = NoReq

SequencerTick(ack) ==
    IF sequencer_reset
    THEN /\ seq_state' = "Idle"
         /\ pc' = 0
         /\ write_pending' = FALSE
         /\ bus_req' = NoReq
    ELSE IF seq_state = "Halted"
    THEN /\ UNCHANGED <<seq_state, pc, write_pending>>
         /\ bus_req' = NoReq
    ELSE LET inst == Program[pc + 1]
         IN  CASE inst.op = "InstWrite" ->
                    IF ~write_pending
                    THEN /\ bus_req' = inst
                         /\ write_pending' = TRUE
                         /\ seq_state' = "Executing"
                         /\ UNCHANGED pc
                    ELSE IF ack THEN Advance ELSE Stay
               [] inst.op = "InstWait" ->
                    IF BusRead(inst.address) = inst.data THEN Advance ELSE Stay
               [] inst.op = "InstEnd" ->
                    /\ seq_state' = "Halted"
                    /\ bus_req' = NoReq
                    /\ UNCHANGED <<pc, write_pending>>

\* start(), writeByte() and stop() are the writes of the transfer register
IsTransfer(req) == req.op = "InstWrite" /\ req.address = I2C_XFER_ADDR

BusTick(done) ==
    IF IsTransfer(bus_req')
    THEN /\ bus_status' = "Busy"
         /\ collision' = (collision \/ bus_status = "Busy")
    ELSE /\ bus_status' = IF bus_status = "Busy" /\ done THEN "Idle" ELSE bus_status
         /\ UNCHANGED collision

ClockTick ==
    /\ tick' = IF seq_state = "Idle" THEN tick + 1 ELSE tick
    /\ rst_ticks' = IF si5324_rst_n = 0 THEN rst_ticks + 1 ELSE rst_ticks
    /\ settle_ticks' = IF si5324_rst_n = 1 /\ si5324_not_ready = 1
                       THEN settle_ticks + 1 ELSE settle_ticks
    /\ edge_parity' = 1 - edge_parity
    /\ issued' = IF bus_req' # NoReq THEN Append(issued, bus_req') ELSE issued
    /\ UNCHANGED powerups

\* one rising edge of the sys clock
Tick(ack, done) ==
    /\ GateTick
    /\ SequencerTick(ack)
    /\ BusTick(done)
    /\ ClockTick
    /\ UNCHANGED build_vars

\* variant: a new configuration reloads the gate and the bus but leaves the
\* registers of the Sequencer as they were
PowerUp_keeps_sequencer ==
    /\ powerups < MaxPowerUps
    /\ UNCHANGED build_vars
    /\ reset_ctr' = reset_val
    /\ reset_done' = 0
    /\ si5324_rst_n' = 0
    /\ ready_ctr' = ready_val
    /\ si5324_not_ready' = 1
    /\ UNCHANGED <<seq_state, pc, write_pending>>
    /\ bus_req' = NoReq
    /\ bus_status' = "Idle"
    /\ collision' = FALSE
    /\ tick' = 0
    /\ rst_ticks' = 0
    /\ settle_ticks' = 0
    /\ edge_parity' = 0
    /\ issued' = <<>>
    /\ powerups' = powerups + 1

\* the device is configured again: every register reloads its reset value
PowerUp ==
    /\ powerups < MaxPowerUps
    /\ UNCHANGED build_vars
    /\ reset_ctr' = reset_val
    /\ reset_done' = 0
    /\ si5324_rst_n' = 0
    /\ ready_ctr' = ready_val
    /\ si5324_not_ready' = 1
    /\ seq_state' = "Idle"
    /\ pc' = 0
    /\ write_pending' = FALSE
    /\ bus_req' = NoReq
    /\ bus_status' = "Idle"
    /\ collision' = FALSE
    /\ tick' = 0
    /\ rst_ticks' = 0
    /\ settle_ticks' = 0
    /\ edge_parity' = 0
    /\ issued' = <<>>
    /\ powerups' = powerups + 1

Next ==
    \/ \E ack \in BOOLEAN, done \in BOOLEAN : Tick(ack, done)
    \/ PowerUp

Spec == Init /\ [][Next]_vars

\* the build of Satellite: sys_clk_freq = 156000000
InitSatellite == PowerUpValues(156000000)

SpecSatellite == InitSatellite /\ [][Next]_vars

\* a run that is not configured again, with a clock that keeps ticking
NextRun == \E ack \in BOOLEAN, done \in BOOLEAN : Tick(ack, done)

SpecRun == Init /\ [][NextRun]_vars /\ WF_vars(NextRun)

(***************************************************************************)
(* Properties                                                              *)
(***************************************************************************)
CeilDiv(a, b) == (a + b - 1) \div b

Min(a, b) == IF a <= b THEN a ELSE b

\* C1: while si5324_not_ready is asserted the Sequencer is Idle at pc = 0 and
\* puts nothing on the bus, and no transfer has reached the I2C master since
\* power-up.
C1_HeldInResetWhileNotReady ==
    si5324_not_ready = 1 =>
        /\ seq_state = "Idle"
        /\ pc = 0
        /\ ~write_pending
        /\ bus_req = NoReq
        /\ bus_status = "Idle"

\* the last state before the gate opens: both counters are down, the chip is
\* out of reset and the Sequencer has been held through every edge so far
C1_Witness ==
    /\ si5324_not_ready = 1
    /\ reset_done = 1
    /\ ready_ctr = 0
    /\ tick = reset_val + ready_val + 1
    /\ seq_state = "Idle"

\* C2: whenever the gate reports ready, both counters have counted all the way
\* down since the most recent power-up: the reset pulse lasted at least
\* reset_val edges and the settle phase at least ready_val edges after it.
C2_ReadyOnlyAfterBothPhases ==
    si5324_not_ready = 0 =>
        /\ reset_done = 1
        /\ si5324_rst_n = 1
        /\ reset_ctr = 0
        /\ ready_ctr = 0
        /\ rst_ticks >= reset_val
        /\ settle_ticks >= ready_val

\* ready, reached again after the device was configured a second time, with a
\* reset pulse that really had to be counted
C2_Witness ==
    /\ si5324_not_ready = 0
    /\ powerups >= 1
    /\ reset_val >= 1
    /\ ready_val >= 1

\* C3: the reset pulse lasts at least 1.1 us and the settle phase at least
\* 11 ms of real time: with t1 the edges the chip was held in reset and t2 the
\* edges from release to ready, t1 * 10^7 >= 11 * f and t2 * 1000 >= 11 * f.
C3_DurationsAreLowerBounds ==
    /\ si5324_rst_n = 1 => rst_ticks * 10000000 >= 11 * sys_clk_freq
    /\ si5324_not_ready = 0 => settle_ticks * 1000 >= 11 * sys_clk_freq

\* 23000 Hz: the double product 23000 * 11e-3 is just below 253 and truncates
\* to 252; the settle phase still lasts 253 edges, exactly 11 ms
C3_Witness ==
    /\ sys_clk_freq = 23000
    /\ ready_val = 252
    /\ si5324_not_ready = 0
    /\ settle_ticks * 1000 = 11 * sys_clk_freq

\* C4 as stated: the counters start at ceil(f * 1.1e-6) and ceil(f * 11e-3),
\* count down to exactly zero in that many edges and are never negative.
C4_Original ==
    /\ reset_val = CeilDiv(11 * sys_clk_freq, 10000000)
    /\ ready_val = CeilDiv(11 * sys_clk_freq, 1000)
    /\ reset_ctr >= 0
    /\ ready_ctr >= 0
    /\ reset_ctr = reset_val - Min(rst_ticks, reset_val)
    /\ ready_ctr = ready_val - Min(settle_ticks, ready_val)

\* C4 amended: the counters start at the truncated double products
\* int(f * 1.1e-6) and int(f * 11e-3): never above the exact product, below
\* its ceiling whenever the product has a fraction, and at most one below the
\* ceiling; each counts down to exactly zero in that many edges and is never
\* negative.
C4_CountersTruncated ==
    /\ reset_val <= (11 * sys_clk_freq) \div 10000000
    /\ ready_val <= (11 * sys_clk_freq) \div 1000
    /\ reset_val + 1 >= CeilDiv(11 * sys_clk_freq, 10000000)
    /\ ready_val + 1 >= CeilDiv(11 * sys_clk_freq, 1000)
    /\ reset_ctr >= 0
    /\ ready_ctr >= 0
    /\ reset_ctr = reset_val - Min(rst_ticks, reset_val)
    /\ ready_ctr = ready_val - Min(settle_ticks, ready_val)

\* 100100 Hz: 1101.1 truncates to 1101, not 1102, and the settle counter has
\* come down to zero after 1101 edges
C4_Witness ==
    /\ sys_clk_freq = 100100
    /\ ready_val = 1101
    /\ settle_ticks = 1101
    /\ ready_ctr = 0
    /\ si5324_not_ready = 1

\* C5 as stated, for the build at 156 MHz, with tick the number of edges
\* since power-up: counters of 172 and 1 716 000, reset released at tick 172,
\* ready at tick 1 716 172, the Sequencer Idle through tick 1 716 171 and
\* executing instruction 0 at tick 1 716 172.
C5_Original ==
    /\ reset_val = 172
    /\ ready_val = 1716000
    /\ (reset_done = 1 <=> tick >= 172)
    /\ (si5324_not_ready = 0 <=> tick >= 1716172)
    /\ (seq_state = "Idle" <=> tick <= 1716171)

\* C5 amended: at 156 MHz the counters start at 171 and 1 716 000; the chip
\* is released by edge 172 and not-ready is cleared by edge 1 716 173; the
\* Sequencer reads not-ready as it was before the edge, so it is Idle after
\* every edge up to 1 716 173 and executes instruction 0 on edge 1 716 174,
\* the first edge that begins with not-ready cleared.
C5_EndToEnd156MHz ==
    /\ reset_val = 171
    /\ ready_val = 1716000
    /\ (reset_done = 1 <=> tick >= 172)
    /\ (si5324_rst_n = 1 <=> tick >= 172)
    /\ (si5324_not_ready = 0 <=> tick >= 1716173)
    /\ (seq_state = "Idle" <=> tick <= 1716173)
    /\ tick <= 1716174

\* the state after edge 172 of the 156 MHz build: the reset counter has come
\* down from 171, the chip has just been released, the settle counter still
\* holds 1 716 000 and the Sequencer is held Idle
C5_Witness ==
    /\ sys_clk_freq = 156000000
    /\ tick = 172
    /\ reset_ctr = 0
    /\ reset_done = 1
    /\ si5324_rst_n = 1
    /\ ready_ctr = 1716000
    /\ si5324_not_ready = 1
    /\ seq_state = "Idle"

\* C6: the Sequencer never requests a start, a byte write or a stop while the
\* I2C master is busy, whatever the lengths of the transfers and whenever the
\* device is configured again.
C6_NoTransferWhileBusy == ~collision

\* a transfer of a Si5324 subsequence is in flight in a run that followed a
\* second configuration
C6_Witness ==
    /\ bus_status = "Busy"
    /\ powerups >= 1
    /\ pc >= 9
    /\ Program[pc + 1].op = "InstWrite"
    /\ write_pending

\* the bus condition of the current instruction: its write was issued, or the
\* register it polls reads as expected
ConditionMet ==
    LET inst == Program[pc + 1]
    IN  \/ inst.op = "InstWrite" /\ write_pending
        \/ inst.op = "InstWait" /\ BusRead(inst.address) = inst.data

\* C7: pc never decreases on a tick; it advances by one, and only when the
\* bus condition of the current instruction is met; only a new configuration
\* of the device takes it back, and then to 0 from any position.
C7_PcMonotone ==
    [][ /\ pc' < pc => (pc' = 0 /\ powerups' = powerups + 1)
        /\ powerups' # powerups => (pc' = 0 /\ seq_state' = "Idle")
        /\ pc' > pc => (pc' = pc + 1 /\ ConditionMet /\ ~sequencer_reset) ]_vars

\* the program is under way again after the device was configured again
C7_Witness ==
    /\ powerups >= 1
    /\ pc >= 3
    /\ seq_state = "Executing"

RECURSIVE BlockStart(_)
\* the index in the program of the start of subsequence k, counted from the
\* lengths of the subsequences before it
BlockStart(k) ==
    IF k = 1 THEN 2
    ELSE BlockStart(k - 1) + 4 + 2 * Len(i2c_sequence[k - 1])

\* C8: the program is one write of the frequency in kHz to the configuration
\* register, not followed by a wait, then for each subsequence in order
\* start, wait idle, each payload byte with write, wait idle, stop, wait idle;
\* every write of the transfer register is followed at once by a wait for
\* idle.
C8_ProgramShape ==
    LET p == Program
        n == Len(i2c_sequence)
        wait == InstWait(I2C_XFER_ADDR, I2C_IDLE)
    IN  /\ p[1].op = "InstWrite"
        /\ p[1].address = I2C_CONFIG_ADDR
        /\ p[1].data * 1000 <= sys_clk_freq
        /\ sys_clk_freq < (p[1].data + 1) * 1000
        /\ p[2].op # "InstWait"
        /\ Len(p) = BlockStart(n + 1)
        /\ \A k \in 1..n :
             LET b == BlockStart(k)
                 sub == i2c_sequence[k]
                 e == b + 2 * Len(sub) + 2
             IN  /\ p[b] = InstWrite(I2C_XFER_ADDR, I2C_START)
                 /\ p[b + 1] = wait
                 /\ \A j \in 1..Len(sub) :
                      /\ p[b + 2 * j].op = "InstWrite"
                      /\ p[b + 2 * j].address = I2C_XFER_ADDR
                      /\ p[b + 2 * j].data \div 256 = I2C_WRITE \div 256
                      /\ p[b + 2 * j].data % 256 = sub[j]
                      /\ p[b + 2 * j + 1] = wait
                 /\ p[e] = InstWrite(I2C_XFER_ADDR, I2C_STOP)
                 /\ p[e + 1] = wait
        /\ \A i \in 1..(Len(p) - 1) : IsTransfer(p[i]) => p[i + 1] = wait

\* the Sequencer waits for the stop of the first subsequence to complete
C8_Witness ==
    /\ seq_state = "Executing"
    /\ pc = 8
    /\ Program[pc] = InstWrite(I2C_XFER_ADDR, I2C_STOP)
    /\ Program[pc + 1].op = "InstWait"
    /\ bus_status = "Busy"

\* C9: for every frequency the program is not empty, ends with InstEnd and
\* has InstEnd nowhere else.
C9_EndsWithEnd ==
    LET p == Program
    IN  /\ Len(p) >= 1
        /\ p[Len(p)] = InstEnd
        /\ \A i \in 1..(Len(p) - 1) : p[i].op # "InstEnd"

\* the Sequencer has run the program to its last instruction and halted
C9_Witness ==
    /\ seq_state = "Halted"
    /\ pc + 1 = Len(Program)

\* the payload octet of a byte write
Payload(inst) == inst.data % 256

\* the indices of the program p at which a subsequence starts
StartsOf(p) == {i \in 1..Len(p) : p[i] = InstWrite(I2C_XFER_ADDR, I2C_START)}

\* in p the subsequence starting at i opens with the write of the chip
\* address addr, shifted left by one with bit 0 clear
AddressesChip(p, i, addr) ==
    /\ p[i + 2].op = "InstWrite"
    /\ p[i + 2].address = I2C_XFER_ADDR
    /\ p[i + 2].data \div 256 = I2C_WRITE \div 256
    /\ Payload(p[i + 2]) % 2 = 0
    /\ Payload(p[i + 2]) \div 2 = addr

\* the program has one subsequence to the multiplexer 0x74, selecting channel
\* 7, followed by exactly n subsequences to the synthesizer 0x68
MuxThenSynthesizer(n) ==
    LET p == Program
        starts == StartsOf(p)
        first == CHOOSE i \in starts : \A j \in starts : i <= j
    IN  /\ starts # {}
        /\ AddressesChip(p, first, 116)
        /\ Payload(p[first + 4]) = 128
        /\ p[first + 6] = InstWrite(I2C_XFER_ADDR, I2C_STOP)
        /\ \A i \in starts \ {first} : AddressesChip(p, i, 104)
        /\ Cardinality(starts \ {first}) = n

\* C10 as stated: one multiplexer subsequence (0x74, channel 7) followed by
\* exactly 22 subsequences to the synthesizer 0x68, each opening with the chip
\* address shifted left by one with bit 0 clear.
C10_Original == MuxThenSynthesizer(22)

\* C10 amended: one multiplexer subsequence (0x74, channel 7) followed by
\* exactly 21 subsequences to the synthesizer 0x68, each opening with the chip
\* address shifted left by one with bit 0 clear.
C10_SubsequenceAddressing == MuxThenSynthesizer(21)

\* the address byte of the last subsequence, to the synthesizer, is on the bus
C10_Witness ==
    /\ pc = BlockStart(Len(i2c_sequence)) + 1
    /\ bus_req = InstWrite(I2C_XFER_ADDR, I2C_WRITE + 208)
    /\ write_pending

\* the Si5324 registers in the order the reference writes them
ReferenceOrder ==
    <<0, 1, 2, 3, 4, 6, 25, 31, 32, 33, 40, 41, 42, 43, 44, 45, 46, 47, 48,
      137, 136>>

\* the reference bytes of the registers that hold the packed divider fields
ReferenceByte ==
    [r \in {25, 31, 32, 33, 40, 41, 42, 43, 44, 45, 46, 47, 48} |->
        CASE r = 25 -> 192
          [] r = 31 -> 0
          [] r = 32 -> 0
          [] r = 33 -> 7
          [] r = 40 -> 192
          [] r = 41 -> 78
          [] r = 42 -> 143
          [] r = 43 -> 0
          [] r = 44 -> 9
          [] r = 45 -> 209
          [] r = 46 -> 0
          [] r = 47 -> 17
          [] r = 48 -> 244]

\* C11: after the multiplexer subsequence the program writes the Si5324
\* registers 0,1,2,3,4,6,25,31,32,33,40..48,137,136 in this order, one per
\* subsequence, every byte within 0..255, and the registers of the divider
\* fields carry the reference bytes 25: C0; 31-33: 00 00 07; 40: C0;
\* 41-42: 4E 8F; 43-45: 00 09 D1; 46-48: 00 11 F4 -- for every frequency and
\* in every state, so on every compilation.
C11_ReferenceBytes ==
    LET p == Program
        starts == StartsOf(p)
        \* the start of the k-th subsequence: k - 1 starts lie before it
        StartNo(k) == CHOOSE i \in starts :
                         Cardinality({j \in starts : j < i}) = k - 1
    IN  /\ Cardinality(starts) = Len(ReferenceOrder) + 1
        /\ \A k \in 1..Len(ReferenceOrder) :
             LET b == StartNo(k + 1)
                 reg == Payload(p[b + 4])
                 val == Payload(p[b + 6])
             IN  /\ p[b + 4].data = I2C_WRITE + reg
                 /\ p[b + 6].data = I2C_WRITE + val
                 /\ p[b + 8] = InstWrite(I2C_XFER_ADDR, I2C_STOP)
                 /\ reg = ReferenceOrder[k]
                 /\ val \in 0..255
                 /\ reg \in DOMAIN ReferenceByte => val = ReferenceByte[reg]

\* the byte C0 of register 40, packed from N2_HS and the high bits of N2_LS,
\* is on the bus
C11_Witness ==
    /\ pc = BlockStart(12) + 5
    /\ Payload(Program[pc - 1]) = 40
    /\ bus_req = InstWrite(I2C_XFER_ADDR, I2C_WRITE + 192)
    /\ write_pending

\* the phase of the gate, read from its registers
Phase ==
    IF si5324_not_ready = 0 THEN "Ready"
    ELSE IF reset_done = 1 THEN "ReadySettle"
    ELSE "ResetHold"

PhaseNo == CASE Phase = "ResetHold" -> 0 [] Phase = "ReadySettle" -> 1 [] Phase = "Ready" -> 2

\* C12: on a tick a counter either keeps its value or decreases by exactly 1
\* and is never negative; in a counting phase the counter of the phase
\* decreases while it is above 0 and the phase advances when it is 0; the
\* phase never moves backward and Ready is kept on every later tick; only a
\* new configuration returns the gate to ResetHold, with both counters
\* reloaded.
C12_GatePhases ==
    [][ IF powerups' # powerups
        THEN /\ Phase' = "ResetHold"
             /\ reset_ctr' = reset_val
             /\ ready_ctr' = ready_val
        ELSE /\ reset_ctr' \in {reset_ctr, reset_ctr - 1}
             /\ ready_ctr' \in {ready_ctr, ready_ctr - 1}
             /\ reset_ctr' >= 0
             /\ ready_ctr' >= 0
             /\ PhaseNo' >= PhaseNo
             /\ PhaseNo' <= PhaseNo + 1
             /\ (Phase = "ResetHold" /\ reset_ctr > 0) =>
                    (reset_ctr' = reset_ctr - 1 /\ Phase' = "ResetHold")
             /\ (Phase = "ResetHold" /\ reset_ctr = 0) =>
                    Phase' = "ReadySettle"
             /\ (Phase = "ReadySettle" /\ ready_ctr > 0) =>
                    (ready_ctr' = ready_ctr - 1 /\ Phase' = "ReadySettle")
             /\ (Phase = "ReadySettle" /\ ready_ctr = 0) =>
                    Phase' = "Ready"
             /\ Phase = "Ready" => (Phase' = "Ready" /\ si5324_not_ready' = 0)
      ]_vars

\* the gate is still Ready after the whole program has run, in a build whose
\* reset pulse had to be counted
C12_Witness ==
    /\ Phase = "Ready"
    /\ seq_state = "Halted"
    /\ reset_val >= 1
    /\ reset_ctr = 0
    /\ ready_ctr = 0

\* C13: the Sequencer enters Halted only on a tick that executes InstEnd,
\* with its reset released; from Halted every step that is not a new
\* configuration keeps it Halted at the same pc with nothing put on the bus;
\* it leaves Halted only by a new configuration, which returns it to Idle at
\* pc = 0.
C13_HaltedIsStable ==
    [][ /\ (seq_state # "Halted" /\ seq_state' = "Halted") =>
               /\ Program[pc + 1].op = "InstEnd"
               /\ ~sequencer_reset
               /\ pc' = pc
        /\ (seq_state = "Halted" /\ powerups' = powerups) =>
               /\ seq_state' = "Halted"
               /\ pc' = pc
               /\ bus_req' = NoReq
               /\ UNCHANGED bus_vars
        /\ (seq_state = "Halted" /\ seq_state' # "Halted") =>
               /\ powerups' = powerups + 1
               /\ seq_state' = "Idle"
               /\ pc' = 0
      ]_vars

\* Halted at InstEnd again, in the run that followed a new configuration
C13_Witness ==
    /\ seq_state = "Halted"
    /\ powerups >= 1
    /\ Program[pc + 1] = InstEnd
    /\ bus_req = NoReq
    /\ bus_status = "Idle"

\* C14: a wait has no timeout. While the Sequencer is at an InstWait and the
\* status it polls differs from the expected value (in this program: while
\* the I2C master is busy), every tick keeps it Executing at the same pc with
\* nothing put on the bus; it does not halt and has no other state to go to.
\* Only a new configuration of the device ends the wait.
C14_WaitHasNoTimeout ==
    [][ LET inst == Program[pc + 1]
        IN  /\ seq_state' \in {"Idle", "Executing", "Halted"}
            /\ (seq_state = "Executing" /\ inst.op = "InstWait"
                    /\ powerups' = powerups) =>
                   /\ bus_status = "Busy" => BusRead(inst.address) # inst.data
                   /\ BusRead(inst.address) # inst.data =>
                          /\ pc' = pc
                          /\ seq_state' = "Executing"
                          /\ bus_req' = NoReq
                          /\ write_pending' = write_pending
                          /\ UNCHANGED collision
      ]_vars

\* the Sequencer is held at the wait that follows a register value of a
\* Si5324 subsequence while the master is still busy with that byte
C14_Witness ==
    /\ seq_state = "Executing"
    /\ pc = BlockStart(3) + 6
    /\ Program[pc].op = "InstWrite"
    /\ Payload(Program[pc]) = i2c_sequence[3][3]
    /\ Program[pc + 1] = InstWait(I2C_XFER_ADDR, I2C_IDLE)
    /\ bus_status = "Busy"
    /\ bus_req = NoReq
    /\ ~write_pending

IsWrite(inst) == inst.op = "InstWrite"

\* the writes of the program p, in program order
WritesOf(p) == SelectSeq(p, IsWrite)

\* the hypothesis on the bus: a write put on the bus is eventually taken, and
\* a busy I2C master eventually reports idle
BusResponds ==
    /\ write_pending ~> ~write_pending
    /\ (bus_status = "Busy") ~> (bus_status = "Idle")

\* the Sequencer has executed InstEnd and the bus has seen each write of the
\* program once, in program order
Done ==
    /\ seq_state = "Halted"
    /\ Program[pc + 1] = InstEnd
    /\ issued = WritesOf(Program)

\* C15: in a run from power-up that is not configured again and whose clock
\* keeps ticking, the gate eventually reaches Ready; if in addition the bus
\* responds, the Sequencer eventually executes InstEnd and is Halted, having
\* put every write of the program on the bus exactly once in program order.
C15_EventuallyConfigured ==
    /\ <>(Phase = "Ready")
    /\ BusResponds => <>Done

\* the run has halted after the gate opened and every write was issued
C15_Witness ==
    /\ powerups = 0
    /\ Phase = "Ready"
    /\ Done
    /\ Len(issued) = 110
    /\ issued[110] = InstWrite(I2C_XFER_ADDR, I2C_STOP)

\* C16: on a tick that begins in ResetHold, with the reset pin not yet
\* released, the settle counter and not-ready keep their values; the tick that
\* clears not-ready begins with the reset pin already released; and a tick
\* never takes the reset pin back from released to held.
C16_ResetHoldFrame ==
    [][ powerups' = powerups =>
          /\ (reset_done = 0 \/ si5324_rst_n = 0) =>
                 /\ Phase = "ResetHold"
                 /\ ready_ctr' = ready_ctr
                 /\ si5324_not_ready' = si5324_not_ready
                 /\ si5324_not_ready' = 1
          /\ (si5324_not_ready = 1 /\ si5324_not_ready' = 0) =>
                 /\ si5324_rst_n = 1
                 /\ rst_ticks < tick
          /\ si5324_rst_n = 1 => si5324_rst_n' = 1
      ]_vars

\* a tick has counted the reset pulse down in ResetHold and the settle
\* counter still holds its reset value
C16_Witness ==
    /\ Phase = "ResetHold"
    /\ si5324_rst_n = 0
    /\ reset_val >= 1
    /\ reset_ctr = reset_val - 1
    /\ tick = 1
    /\ ready_ctr = ready_val
    /\ si5324_not_ready = 1

\* the writes seen on the bus since power-up are those of the instructions
\* before pc, and the current one if it is issued, in program order
IssuedFollowsProgram ==
    issued = WritesOf(SubSeq(Program, 1, pc))
             \o (IF write_pending THEN <<Program[pc + 1]>> ELSE <<>>)

\* every register and every record of the run holds its power-up value
AtPowerUpValues ==
    /\ gate_vars = <<reset_val, 0, 0, ready_val, 1>>
    /\ seq_vars = <<"Idle", 0, FALSE, NoReq>>
    /\ bus_vars = <<"Idle", FALSE>>
    /\ <<tick, rst_ticks, settle_ticks, edge_parity>> = <<0, 0, 0, 0>>
    /\ issued = <<>>

====
